---- MODULE Spec2Model ----
(***************************************************************************)
(* PostgresToolset (postgres-toolset/src/toolset.py) as a state machine.   *)
(*                                                                         *)
(* One toolset instance, driven by one caller at a time.  The database     *)
(* driver and the completion capability are the environment: every call    *)
(* to them may succeed or fail, and what they return is chosen from small  *)
(* sets.                                                                   *)
(*                                                                         *)
(* A text (a SQL string, a completion reply) is a sequence of tokens.  A   *)
(* token is a run of characters that the string operations of the code     *)
(* never split: one whitespace character, one code fence (three            *)
(* backticks), one SQL word, or some other text ("x").                     *)
(***************************************************************************)
EXTENDS Integers, Sequences, FiniteSets, TLC

(* ------------------------------ bounds --------------------------------- *)

\* longest text, in tokens, handed to execute_sql or returned by a completion
MaxTextLen == 3

\* largest max_rows a config is built with
MaxRowsCfg == 1

\* largest result set a statement produces
MaxResultRows == 2

\* most tables a schema holds
MaxTables == 1

\* most connections that unserialized callers have open at a time
MaxOpen == 3

(* ------------------------------- texts --------------------------------- *)

WriteKeywords == <<"INSERT", "UPDATE", "DELETE", "DROP", "CREATE", "ALTER", "TRUNCATE">>

WriteMode == {"blocked", "allowed"}

\* the words a text may carry besides SELECT: the seven keywords and a lower-case one
Words == {WriteKeywords[i] : i \in DOMAIN WriteKeywords} \cup {"drop"}

Space == {" ", "\n"}

\* the token of a code fence, three backticks
Fence == "[fence]"

\* a text shape: "W" stands for the one word of Words the text uses
Shapes == UNION {[1..n -> Space \cup {Fence, "x", "SELECT", "W"}] : n \in 0..MaxTextLen}

Fill(shape, w) == [i \in DOMAIN shape |-> IF shape[i] = "W" THEN w ELSE shape[i]]

\* every text of at most MaxTextLen tokens that uses at most one word of Words
Texts == {Fill(s, w) : s \in Shapes, w \in Words}

\* str.upper
UpperTok(c) == CASE c = "drop" -> "DROP" [] c = "x" -> "X" [] OTHER -> c

upper(s) == [i \in DOMAIN s |-> UpperTok(s[i])]

RECURSIVE lstrip(_)
lstrip(s) == IF s # <<>> /\ Head(s) \in Space THEN lstrip(Tail(s)) ELSE s

RECURSIVE rstrip(_)
rstrip(s) == IF s # <<>> /\ s[Len(s)] \in Space THEN rstrip(SubSeq(s, 1, Len(s) - 1)) ELSE s

\* str.strip
strip(s) == rstrip(lstrip(s))

\* str.startswith, for a one-token prefix
startswith(s, tok) == s # <<>> /\ s[1] = tok

\* str.endswith, for a one-token suffix
endswith(s, tok) == s # <<>> /\ s[Len(s)] = tok

Occurrences(s, tok) == {i \in DOMAIN s : s[i] = tok}

Min(S) == CHOOSE m \in S : \A k \in S : m <= k

Max(S) == CHOOSE m \in S : \A k \in S : m >= k

\* s.split(tok, 1): one part when tok does not occur, else the text before and after its first occurrence
split1(s, tok) ==
    IF Occurrences(s, tok) = {} THEN <<s>>
    ELSE LET i == Min(Occurrences(s, tok))
         IN  <<SubSeq(s, 1, i - 1), SubSeq(s, i + 1, Len(s))>>

\* s.rsplit(tok, 1): the same around the last occurrence
rsplit1(s, tok) ==
    IF Occurrences(s, tok) = {} THEN <<s>>
    ELSE LET i == Max(Occurrences(s, tok))
         IN  <<SubSeq(s, 1, i - 1), SubSeq(s, i + 1, Len(s))>>

\* the write check, had it left out strip()
IsWriteNoStrip(sql_query) == \E i \in DOMAIN WriteKeywords : startswith(upper(sql_query), WriteKeywords[i])

\* the write check, had it left out upper()
IsWriteNoUpper(sql_query) == \E i \in DOMAIN WriteKeywords : startswith(strip(sql_query), WriteKeywords[i])

\* the write check, had it looked for a keyword anywhere in the text
IsWriteContains(sql_query) ==
    \E i \in DOMAIN WriteKeywords : Occurrences(upper(strip(sql_query)), WriteKeywords[i]) # {}

\* the write check, had it looked for the first keyword behind whatever stands before it
IsWriteFirstKeyword(sql_query) ==
    LET query_upper == upper(strip(sql_query))
        kw == {k \in DOMAIN query_upper :
                 \E i \in DOMAIN WriteKeywords : query_upper[k] = WriteKeywords[i]}
        sel == {k \in DOMAIN query_upper : query_upper[k] = "SELECT"}
    IN  kw # {} /\ \A k \in sel : Min(kw) < k

\* the write check of execute_sql
IsWrite(sql_query) ==
    LET query_upper == upper(strip(sql_query))
    IN  \E i \in DOMAIN WriteKeywords : startswith(query_upper, WriteKeywords[i])

\* the clean-up of the completion reply in ask_data_insights; ok is FALSE when
\* split("\n", 1)[1] raises IndexError
CleanSql(text) ==
    LET s0    == strip(text)
        parts == split1(s0, "\n")
        bad   == startswith(s0, Fence) /\ Len(parts) < 2
        s1    == IF startswith(s0, Fence) /\ ~bad THEN parts[2] ELSE s0
        s2    == IF endswith(s1, Fence) THEN rsplit1(s1, Fence)[1] ELSE s1
    IN  [ok |-> ~bad, sql |-> IF bad THEN <<>> ELSE strip(s2)]

(* ---------------------------- the driver -------------------------------- *)

\* one call of the database driver: kind is "connect", "catalog" (a statement of the
\* schema tools) or "sql" (a statement given to execute_sql)
DriverCall(kind, stmt, ok) == [kind |-> kind, stmt |-> stmt, ok |-> ok]

\* what is left of a connection after a statement failed on it
AfterFailure == {"open", "closed"}

\* the keyword arguments of psycopg.connect
ConnectArgs == [autocommit |-> TRUE]

\* the test of _get_connection, had it been left out
MustConnectAlways(c) == TRUE

\* the test of _get_connection, had it overlooked a connection that was closed
MustConnectWhenNone(c) == c = "None"

\* the test of _get_connection: self._conn is None or self._conn.closed
MustConnect(c) == c = "None" \/ c = "closed"

\* _get_connection, had it opened a connection at every call
GetConnectionAlways(c) ==
    {[ok |-> TRUE, conn |-> "open", drv |-> <<DriverCall("connect", ConnectArgs, TRUE)>>],
     [ok |-> FALSE, conn |-> c, drv |-> <<DriverCall("connect", ConnectArgs, FALSE)>>]}

\* _get_connection on a toolset whose _conn is c ("None", "open" or "closed")
GetConnection(c) ==
    IF MustConnect(c)
    THEN {[ok |-> TRUE, conn |-> "open", drv |-> <<DriverCall("connect", ConnectArgs, TRUE)>>],
          [ok |-> FALSE, conn |-> c, drv |-> <<DriverCall("connect", ConnectArgs, FALSE)>>]}
    ELSE {[ok |-> TRUE, conn |-> c, drv |-> <<>>]}

\* the connections that the calls d opened
Opened(d) == Cardinality({k \in DOMAIN d : d[k].kind = "connect" /\ d[k].ok})

\* the calls of Connection.close among d
Closed(d) == Cardinality({k \in DOMAIN d : d[k].kind = "close"})

\* the open connections after a step that made the calls d and took _conn from c to c2:
\* a connection that a failure left closed is the one the step worked on
OpenAfter(n, c, c2, d) ==
    n + Opened(d) - Closed(d) - IF c2 = "closed" /\ (c = "open" \/ Opened(d) > 0) THEN 1 ELSE 0

\* close(), had it kept the reference to the connection it closed
CloseOutcomeKeepsRef(c) ==
    IF c = "open"
    THEN [conn |-> "closed", drv |-> <<DriverCall("close", <<>>, TRUE)>>]
    ELSE [conn |-> c, drv |-> <<>>]

\* close() on a toolset whose _conn is c
CloseOutcome(c) ==
    IF c = "open"
    THEN [conn |-> "None", drv |-> <<DriverCall("close", <<>>, TRUE)>>]
    ELSE [conn |-> c, drv |-> <<>>]

\* the statements stmts run in order on one cursor: done is the number that succeeded
RunCatalog(c, stmts) ==
    LET Calls(k, all) == [j \in 1..k |-> DriverCall("catalog", stmts[j], all \/ j < k)]
    IN  UNION {
          IF ~g.ok THEN {[ok |-> FALSE, done |-> 0, conn |-> g.conn, drv |-> g.drv, error |-> "connect_error"]}
          ELSE {[ok |-> TRUE, done |-> Len(stmts), conn |-> "open",
                 drv |-> g.drv \o Calls(Len(stmts), TRUE), error |-> ""]}
               \cup {[ok |-> FALSE, done |-> k - 1, conn |-> after,
                      drv |-> g.drv \o Calls(k, FALSE), error |-> "sql_error"] :
                        k \in 1..Len(stmts), after \in AfterFailure}
          : g \in GetConnection(c)}

\* size of a cursor's fetch batch when fetchmany is given no size (psycopg.Cursor.arraysize)
arraysize == 1

\* psycopg's Cursor.fetchmany(size): a size of 0 means "not given" and stands for arraysize
fetchmany(rows, size) ==
    LET n == IF size = 0 THEN arraysize ELSE size
    IN  SubSeq(rows, 1, IF n < Len(rows) THEN n ELSE Len(rows))

(* ------------------------- the schema tools ---------------------------- *)

SchemaListings == {<<>>, <<[name |-> "public", table_count |-> 1]>>}

ListSchemasOutcomes(c) ==
    UNION {
      IF r.ok
      THEN {[result |-> [status |-> "success", schemas |-> rows], conn |-> r.conn, drv |-> r.drv] :
              rows \in SchemaListings}
      ELSE {[result |-> [status |-> "error", error_message |-> r.error], conn |-> r.conn, drv |-> r.drv]}
      : r \in RunCatalog(c, <<"list_schemas">>)}

\* a database whose schema holds `tables` tables, named 1..tables in the order of their
\* names; twin is the table whose name a relation of another schema bears too, or 0
Database(tables, twin) == [tables |-> tables, twin |-> twin]

\* the rows of the pg_tables query for a schema of n tables, ordered by name
TableListing(n) == [t \in 1..n |-> [name |-> t, row_count |-> 0, description |-> ""]]

\* the rows of the pg_tables query on database d. The query joins pg_class on the table's
\* name alone and keeps, by its left joins, the rows of every relation of that name: a
\* table whose name a relation of another schema bears comes out twice, side by side
Listing(d) ==
    LET rows == TableListing(d.tables)
    IN  IF d.twin = 0 THEN rows
        ELSE SubSeq(rows, 1, d.twin) \o SubSeq(rows, d.twin, d.tables)

\* list_tables, had the toolset kept the listing of the schema as it first was, empty
ListTablesOutcomesStale(c, schema_name, dbs) ==
    {[result |-> [status |-> "success", schema |-> schema_name, tables |-> Listing(d)],
      conn |-> c, drv |-> <<>>] : d \in dbs \cup {Database(0, 0)}}

\* dbs are the states the database may be in when the statement reaches it
ListTablesOutcomes(c, schema_name, dbs) ==
    UNION {
      IF r.ok
      THEN {[result |-> [status |-> "success", schema |-> schema_name, tables |-> Listing(d)],
             conn |-> r.conn, drv |-> r.drv] : d \in dbs}
      ELSE {[result |-> [status |-> "error", error_message |-> r.error], conn |-> r.conn, drv |-> r.drv]}
      : r \in RunCatalog(c, <<"list_tables">>)}

\* what the four statements of get_table_info find: a table without columns, keys or
\* rows, or a table with a column, a key and a row
TableContents ==
    {[columns |-> <<>>, primary_key |-> <<>>, foreign_keys |-> <<>>, sample_rows |-> <<>>],
     [columns |-> <<[name |-> "id", type |-> "integer", nullable |-> FALSE, default |-> ""]>>,
      primary_key |-> <<>>, foreign_keys |-> <<>>, sample_rows |-> <<>>],
     [columns |-> <<[name |-> "id", type |-> "integer", nullable |-> FALSE, default |-> ""]>>,
      primary_key |-> <<"id">>,
      foreign_keys |-> <<[column |-> "id", references |-> "public.t.id"]>>,
      sample_rows |-> <<<<1>>>>]}

TableInfoStatements == <<"columns", "primary_key", "foreign_keys", "sample_rows">>

\* the dict of get_table_info, had it left out the keys of a table that has none
TableInfoResultWithoutEmptyKeys(table_name, schema_name, t) ==
    LET base == [status |-> "success", table |-> table_name, schema |-> schema_name,
                 columns |-> t.columns, sample_rows |-> t.sample_rows]
        pk   == IF t.primary_key = <<>> THEN base ELSE base @@ [primary_key |-> t.primary_key]
    IN  IF t.foreign_keys = <<>> THEN pk ELSE pk @@ [foreign_keys |-> t.foreign_keys]

\* the dict of get_table_info for a table whose four statements found t
TableInfoResult(table_name, schema_name, t) ==
    [status |-> "success", table |-> table_name, schema |-> schema_name,
     columns |-> t.columns, primary_key |-> t.primary_key,
     foreign_keys |-> t.foreign_keys, sample_rows |-> t.sample_rows]

\* the dict that get_table_info has filled when the first `done` of its four statements
\* have run on a table that holds t
PartialTableInfo(table_name, schema_name, t, done) ==
    LET filled == {TableInfoStatements[k] : k \in 1..done}
    IN  [key \in {"status", "table", "schema"} \cup filled |->
           CASE key = "status" -> "success"
             [] key = "table" -> table_name
             [] key = "schema" -> schema_name
             [] OTHER -> t[key]]

\* the dict of the except clause, had it been the dict filled so far with the error added
TableInfoErrorKeepingPartial(e, partial) ==
    [key \in DOMAIN partial \cup {"error_message"} |->
       CASE key = "status" -> "error"
         [] key = "error_message" -> e
         [] OTHER -> partial[key]]

\* the dict of the except clause of get_table_info: the dict filled so far is dropped
TableInfoError(e, partial) == [status |-> "error", error_message |-> e]

GetTableInfoOutcomes(c, table_name, schema_name) ==
    UNION {
      IF r.ok
      THEN {[result |-> TableInfoResult(table_name, schema_name, t),
             conn |-> r.conn, drv |-> r.drv] : t \in TableContents}
      ELSE {[result |-> TableInfoError(r.error, PartialTableInfo(table_name, schema_name, t, r.done)),
             conn |-> r.conn, drv |-> r.drv] : t \in TableContents}
      : r \in RunCatalog(c, TableInfoStatements)}

(* ---------------------------- execute_sql ------------------------------ *)

WriteBlockedMessage == "Write operations are blocked. Only SELECT queries allowed."

\* what the database answers to a statement that did not fail: description is "None" or
\* the list of output columns, rows are the rows of the result set, rowcount is
\* cur.rowcount; a blank statement has no result set and no row count; sizes are the
\* numbers of rows a result set may have
StatementAnswers(stmt, sizes) ==
    IF strip(stmt) = <<>>
    THEN {[description |-> "None", rows |-> <<>>, rowcount |-> -1]}
    ELSE {[description |-> "None", rows |-> <<>>, rowcount |-> k] : k \in 0..1}
         \cup {[description |-> "columns", columns |-> cols, rows |-> [j \in 1..r |-> <<j>>],
                rowcount |-> r] : cols \in {<<>>, <<"c1">>}, r \in sizes}

\* cur.description is truthy
HasDescription(a) == a.description # "None" /\ a.columns # <<>>

\* the cursor before any statement ran on it
NoCursor == [description |-> "unset"]

\* the statement produced a result set, of however many columns and rows
ProducedResultSet(a) == a.description = "columns"

\* the write guard, had it not looked at the write mode
RejectsAnyMode(cfg, sql_query) == IsWrite(sql_query)

\* the write guard of execute_sql
Rejects(cfg, sql_query) == IsWrite(sql_query) /\ cfg.write_mode = "blocked"

\* the dict of the except clause, had it left the statement out
ExecuteSqlErrorNoQuery(sql_query, e) == [status |-> "error", error_message |-> e]

\* the dict of the except clause of execute_sql
ExecuteSqlError(sql_query, e) == [status |-> "error", query |-> sql_query, error_message |-> e]

\* the dict of a statement that ran and whose rows, if any, were fetched
ExecuteSqlSuccess(cfg, sql_query, a) ==
    IF HasDescription(a)
    THEN LET rows == fetchmany(a.rows, cfg.max_rows)
         IN  [status |-> "success", query |-> sql_query, columns |-> a.columns,
              rows |-> rows, row_count |-> Len(rows)]
    ELSE [status |-> "success", query |-> sql_query,
          message |-> <<"Query executed successfully. Rows affected: ", a.rowcount>>]

\* everything execute_sql can do: cur is what the database answered, if it did
ExecuteSqlOutcomes(cfg, c, sql_query, sizes) ==
    IF Rejects(cfg, sql_query)
    THEN {[result |-> [status |-> "error", error_message |-> WriteBlockedMessage],
           conn |-> c, drv |-> <<>>, cur |-> NoCursor]}
    ELSE UNION {
      IF ~g.ok
      THEN {[result |-> ExecuteSqlError(sql_query, "connect_error"),
             conn |-> g.conn, drv |-> g.drv, cur |-> NoCursor]}
      ELSE {[result |-> ExecuteSqlError(sql_query, "sql_error"),
             conn |-> after, drv |-> g.drv \o <<DriverCall("sql", sql_query, FALSE)>>,
             cur |-> NoCursor] : after \in AfterFailure}
           \cup
           {[result |-> ExecuteSqlError(sql_query, "fetch_error"),
             conn |-> "open",
             drv |-> g.drv \o <<DriverCall("sql", sql_query, TRUE), DriverCall("fetch", sql_query, FALSE)>>,
             cur |-> a] : a \in {b \in StatementAnswers(sql_query, sizes) : HasDescription(b)}}
           \cup
           {[result |-> ExecuteSqlSuccess(cfg, sql_query, a),
             conn |-> "open",
             drv |-> g.drv \o <<DriverCall("sql", sql_query, TRUE)>>
                      \o IF HasDescription(a) THEN <<DriverCall("fetch", sql_query, TRUE)>> ELSE <<>>,
             cur |-> a] : a \in StatementAnswers(sql_query, sizes)}
      : g \in GetConnection(c)}

(* ------------------------------ state ---------------------------------- *)

VARIABLES
    pg_config,      \* self._pg_config: write_mode and max_rows
    conn,           \* self._conn: "None", or the state of the connection it refers to
    genai_client,   \* self._genai_client is not None
    pc,             \* where the caller is: "idle", inside ask_data_insights, or "returned",
                    \* "returned_tools" (from get_tools), "returned_none" (from close)
    op,             \* the tool that was called
    question,       \* ask_data_insights: the question
    sql_query,      \* the statement given to execute_sql, or synthesized by ask_data_insights
    result,         \* the dict the tool returned
    drv,            \* the calls that the last step made to the database driver
    stages,         \* ask_data_insights: the stages run so far, with their outcome
    completions,    \* ask_data_insights: what each completion call so far did, with the
                    \* text of the answer
    tables_result,  \* ask_data_insights: what _list_tables returned
    idx,            \* ask_data_insights: position of the loop over the tables
    schema_context, \* ask_data_insights: the lines of the schema block
    prompt,         \* the prompt of the completion call that is under way
    exec_result,    \* ask_data_insights: what _execute_sql returned
    tools,          \* self._tools
    cur,            \* what the database answered to the statement of the last step
    open_conns,     \* the connections that were opened for the toolset and are still open
    environ,        \* os.environ, as PostgresConfig.from_env reads it
    built,          \* what the construction of a PostgresConfig gave
    pgmcp_call,     \* PGMCPClient.ask: its arguments and what the HTTP exchange does
    pgmcp_result,   \* PGMCPClient.ask: what it returned or raised
    database,       \* what the database may hold when a statement reaches it: states are
                    \* the states of its catalog, rows the sizes of its result sets
    cleaning,       \* the fence clean-up taken alone: the text of the first completion and
                    \* what the clean-up gave
    callers         \* unserialized callers: where each of them is inside its call, and
                    \* whether two calls were under way at the same time

vars == <<pg_config, conn, genai_client, pc, op, question, sql_query, result, drv, stages,
          completions, tables_result, idx, schema_context, prompt, exec_result,
          tools, cur, open_conns, environ, built, pgmcp_call, pgmcp_result,
          database, cleaning, callers>>

toolset == <<pg_config, conn, genai_client, tools>>

\* the state of the programs beside the toolset: the configuration from the environment,
\* and the client of the PGMCP server
outside == <<environ, built, pgmcp_call, pgmcp_result, database, cleaning, callers>>

\* the database, the clean-up taken alone and the unserialized callers
beside == <<database, cleaning, callers>>

locals == <<tables_result, idx, schema_context, prompt, exec_result>>

NoResult == [status |-> "none"]

NoPrompt == [kind |-> "none"]

Questions == {"How many customers?"}

Schemas == {"public"}

\* the tables a caller may ask get_table_info about
TableNames == 1..MaxTables

Stage(name, ok, why) == [stage |-> name, ok |-> ok, why |-> why]

\* the first tables of a listing that ask_data_insights looks at
TableLimit == 10

\* the rows of the result that the answer prompt shows
PreviewRows == 5

Prefix(seq, n) == SubSeq(seq, 1, IF n < Len(seq) THEN n ELSE Len(seq))

\* what a completion call does: it raises, it returns a response without text, or a text
SqlReplies == {[kind |-> "error"], [kind |-> "no_text"]} \cup {[kind |-> "text", text |-> t] : t \in Texts}

AnswerReplies ==
    {[kind |-> "error"], [kind |-> "no_text"]}
    \cup {[kind |-> "text", text |-> t] : t \in {<<>>, <<" ", "x", "\n">>}}

\* the five tools made by __init__, named by their functions
FiveTools == <<"list_schemas", "list_tables", "get_table_info", "execute_sql", "ask_data_insights">>

\* the configs a toolset is constructed with
Configs == [write_mode : WriteMode, max_rows : 0..MaxRowsCfg]

\* no PostgresConfig was asked for
NotBuilt == [via |-> "none"]

\* no variable is set
EmptyEnviron == [n \in {} |-> ""]

\* no call of PGMCPClient.ask is under way
NoCall == [question |-> "", format |-> "", exchange |-> "none"]

\* the databases of a toolset whose schema shares no name with another schema
Databases == {Database(n, 0) : n \in 0..MaxTables}

Callers == {1, 2}

\* a caller that is not inside a call
Outside == [at |-> "outside", op |-> "none"]

\* the clean-up was not run
NotCleaned == [ok |-> FALSE]

\* the clean-up is not run alone
NoCleaning == [text |-> <<>>, out |-> NotCleaned]

\* the database: the states of its catalog and the sizes of its result sets
DatabaseOf(states, rows) == [states |-> states, rows |-> rows]

\* no callers that are followed step by step
NoCallers == [at |-> <<>>, overlapped |-> FALSE]

\* the clean-up is not run alone, and no unserialized callers are about
NothingElse ==
    /\ cleaning = NoCleaning
    /\ callers = NoCallers

\* the database as the toolset's callers find it, nothing else being run beside them
BesideIdle ==
    /\ database = DatabaseOf(Databases, 0..MaxResultRows)
    /\ NothingElse

\* the programs beside the toolset are not run
OutsideIdle ==
    /\ environ = EmptyEnviron
    /\ built = NotBuilt
    /\ pgmcp_call = NoCall
    /\ pgmcp_result = NoResult
    /\ BesideIdle

\* a toolset after __init__(cfg)
Constructed(cfg) ==
    /\ pg_config = cfg
    /\ tools = FiveTools
    /\ cur = NoCursor
    /\ open_conns = 0
    /\ conn = "None"
    /\ genai_client = FALSE
    /\ pc = "idle"
    /\ op = "none"
    /\ question = ""
    /\ sql_query = <<>>
    /\ result = NoResult
    /\ drv = <<>>
    /\ stages = <<>>
    /\ completions = <<>>
    /\ tables_result = NoResult
    /\ idx = 0
    /\ schema_context = <<>>
    /\ prompt = NoPrompt
    /\ exec_result = NoResult

Init ==
    /\ \E cfg \in Configs : Constructed(cfg)
    /\ OutsideIdle

(* ------------------------- the tools, called alone --------------------- *)

\* a tool's return, had the tool set the config's max_rows to the default
ReturnsResettingMaxRows(name, o) ==
    /\ pc' = "returned"
    /\ op' = name
    /\ result' = o.result
    /\ conn' = o.conn
    /\ drv' = o.drv
    /\ cur' = IF "cur" \in DOMAIN o THEN o.cur ELSE NoCursor
    /\ open_conns' = OpenAfter(open_conns, conn, o.conn, o.drv)
    /\ pg_config' = [pg_config EXCEPT !.max_rows = 100]
    /\ UNCHANGED <<tools, genai_client, question, stages, completions, locals>>
    /\ UNCHANGED outside

\* a tool that runs in one step: o is what it did
Returns(name, o) ==
    /\ pc' = "returned"
    /\ op' = name
    /\ result' = o.result
    /\ conn' = o.conn
    /\ drv' = o.drv
    /\ cur' = IF "cur" \in DOMAIN o THEN o.cur ELSE NoCursor
    /\ open_conns' = OpenAfter(open_conns, conn, o.conn, o.drv)
    /\ UNCHANGED <<pg_config, tools, genai_client, question, stages, completions, locals>>
    /\ UNCHANGED outside

ListSchemas ==
    /\ pc = "idle"
    /\ \E o \in ListSchemasOutcomes(conn) : Returns("list_schemas", o)
    /\ UNCHANGED sql_query

ListTables ==
    /\ pc = "idle"
    /\ \E schema_name \in Schemas : \E o \in ListTablesOutcomes(conn, schema_name, database.states) :
         Returns("list_tables", o)
    /\ UNCHANGED sql_query

GetTableInfo ==
    /\ pc = "idle"
    /\ \E table_name \in TableNames, schema_name \in Schemas :
         \E o \in GetTableInfoOutcomes(conn, table_name, schema_name) :
           Returns("get_table_info", o)
    /\ UNCHANGED sql_query

ExecuteSql ==
    /\ pc = "idle"
    /\ \E sql \in Texts :
         /\ sql_query' = sql
         /\ \E o \in ExecuteSqlOutcomes(pg_config, conn, sql, database.rows) : Returns("execute_sql", o)

\* close()
Close ==
    /\ pc = "idle"
    /\ pc' = "returned_none"
    /\ op' = "close"
    /\ LET o == CloseOutcome(conn)
       IN  /\ conn' = o.conn
           /\ drv' = o.drv
           /\ open_conns' = OpenAfter(open_conns, conn, o.conn, o.drv)
    /\ UNCHANGED <<pg_config, tools, genai_client, question, sql_query, result, stages,
                   completions, locals, cur>>
    /\ UNCHANGED outside

\* what get_tools returns, had it given tools only when handed no context
GetToolsResultWithoutContext(t, readonly_context) ==
    [tools |-> IF readonly_context = "None" THEN t ELSE <<>>]

\* what get_tools returns
GetToolsResult(t, readonly_context) == [tools |-> t]

\* get_tools(readonly_context)
GetTools ==
    /\ pc = "idle"
    /\ pc' = "returned_tools"
    /\ op' = "get_tools"
    /\ \E readonly_context \in {"None", "context"} :
         result' = GetToolsResult(tools, readonly_context)
    /\ drv' = <<>>
    /\ UNCHANGED <<toolset, question, sql_query, stages, completions, locals, cur, open_conns>>
    /\ UNCHANGED outside

\* the caller takes the result; the next call starts from a clean slate
Return ==
    /\ pc \in {"returned", "returned_tools", "returned_none"}
    /\ pc' = "idle"
    /\ op' = "none"
    /\ question' = ""
    /\ sql_query' = <<>>
    /\ result' = NoResult
    /\ drv' = <<>>
    /\ stages' = <<>>
    /\ completions' = <<>>
    /\ tables_result' = NoResult
    /\ idx' = 0
    /\ schema_context' = <<>>
    /\ prompt' = NoPrompt
    /\ exec_result' = NoResult
    /\ cur' = NoCursor
    /\ UNCHANGED <<toolset, open_conns>>
    /\ UNCHANGED outside

(* -------------------------- ask_data_insights -------------------------- *)

\* the dict of the except clause, had it kept the rows fetched so far
AskExceptResultWithData(q, why, exec) ==
    [status |-> "error", question |-> q, error_message |-> why,
     data |-> IF "rows" \in DOMAIN exec THEN exec.rows ELSE <<>>]

\* the dict of the except clause at the end of ask_data_insights
AskExceptResult(q, why, exec) == [status |-> "error", question |-> q, error_message |-> why]

\* an exception inside ask_data_insights, had there been no except clause
AskRaisesUncaught(stage, why) ==
    /\ pc' = "raised"
    /\ result' = NoResult
    /\ stages' = Append(stages, Stage(stage, FALSE, why))
    /\ prompt' = NoPrompt
    /\ drv' = <<>>

\* an exception inside ask_data_insights reaches its except clause
AskRaises(stage, why) ==
    /\ pc' = "returned"
    /\ result' = AskExceptResult(question, why, exec_result)
    /\ stages' = Append(stages, Stage(stage, FALSE, why))
    /\ prompt' = NoPrompt
    /\ drv' = <<>>

\* the call of _list_tables
AskListTables ==
    /\ pc = "idle"
    /\ op' = "ask_data_insights"
    /\ \E q \in Questions, schema_name \in Schemas : \E o \in ListTablesOutcomes(conn, schema_name, database.states) :
         /\ question' = q
         /\ conn' = o.conn
         /\ drv' = o.drv
         /\ open_conns' = OpenAfter(open_conns, conn, o.conn, o.drv)
         /\ tables_result' = o.result
         /\ stages' = <<Stage("list_tables", o.result.status = "success", "")>>
         /\ IF o.result.status = "error"
            THEN /\ pc' = "returned"
                 /\ result' = o.result
                 /\ idx' = 0
            ELSE /\ pc' = "ask_info"
                 /\ result' = NoResult
                 /\ idx' = 1
    /\ UNCHANGED <<pg_config, tools, genai_client, sql_query, completions, schema_context, prompt,
                   exec_result, cur>>
    /\ UNCHANGED outside

\* the line of the schema block for one table
SchemaLine(table, table_info) ==
    [table |-> table.name, cols |-> [j \in DOMAIN table_info.columns |->
        <<table_info.columns[j].name, table_info.columns[j].type>>]]

\* the loop's step, had a failed get_table_info been tried again
NextRoundRetrying(i, table_info) == IF table_info.status = "success" THEN i + 1 ELSE i

\* the loop goes on to the next entry, whatever get_table_info returned
NextRound(i, table_info) == i + 1

\* one round of the loop over the first tables of the listing
AskTableInfo ==
    /\ pc = "ask_info"
    /\ idx <= Len(Prefix(tables_result.tables, TableLimit))
    /\ LET table == tables_result.tables[idx]
       IN  \E o \in GetTableInfoOutcomes(conn, table.name, tables_result.schema) :
             /\ conn' = o.conn
             /\ drv' = o.drv
             /\ open_conns' = OpenAfter(open_conns, conn, o.conn, o.drv)
             /\ stages' = Append(stages, Stage("get_table_info", o.result.status = "success", ""))
             /\ schema_context' = IF o.result.status = "success"
                                  THEN Append(schema_context, SchemaLine(table, o.result))
                                  ELSE schema_context
             /\ idx' = NextRound(idx, o.result)
    /\ UNCHANGED <<pg_config, tools, genai_client, pc, op, question, sql_query, result, completions,
                   tables_result, prompt, exec_result, cur>>
    /\ UNCHANGED outside

\* the loop over the tables, had it been left before its first round
LoopDoneAtOnce(i, listed) == TRUE

\* the loop over the first tables of the listing has run all its rounds
LoopDone(i, listed) == i > Len(Prefix(listed.tables, TableLimit))

\* after the loop: _get_genai_client, and the first prompt goes out
AskSqlPrompt ==
    /\ pc = "ask_info"
    /\ LoopDone(idx, tables_result)
    /\ \E created \in IF genai_client THEN {TRUE} ELSE {TRUE, FALSE} :
         IF created
         THEN /\ genai_client' = TRUE
              /\ pc' = "ask_sql_completion"
              /\ prompt' = [kind |-> "sql", schema_name |-> tables_result.schema,
                            schema_str |-> schema_context, question |-> question,
                            max_rows |-> pg_config.max_rows]
              /\ drv' = <<>>
              /\ UNCHANGED <<result, stages>>
         ELSE /\ AskRaises("sql_completion", "client_error")
              /\ UNCHANGED genai_client
    /\ UNCHANGED <<pg_config, tools, conn, op, question, sql_query, completions,
                   tables_result, idx, schema_context, exec_result, cur, open_conns>>
    /\ UNCHANGED outside

\* the statement taken from the first completion, had a missing text counted as ""
SqlFromReplyNoneAsEmpty(reply) ==
    CASE reply.kind = "error" -> [ok |-> FALSE, why |-> "error", sql |-> <<>>]
      [] reply.kind = "no_text" -> [ok |-> TRUE, why |-> "", sql |-> <<>>]
      [] OTHER -> LET c == CleanSql(reply.text)
                  IN  [ok |-> c.ok, why |-> IF c.ok THEN "" ELSE "index_error", sql |-> c.sql]

\* the statement taken from the first completion: generate_content raises, or
\* response.text is None and .strip() raises, or the text is cleaned up
SqlFromReply(reply) ==
    CASE reply.kind = "error" -> [ok |-> FALSE, why |-> "error", sql |-> <<>>]
      [] reply.kind = "no_text" -> [ok |-> FALSE, why |-> "no_text", sql |-> <<>>]
      [] OTHER -> LET c == CleanSql(reply.text)
                  IN  [ok |-> c.ok, why |-> IF c.ok THEN "" ELSE "index_error", sql |-> c.sql]

\* the first completion answers
AskSqlReply ==
    /\ pc = "ask_sql_completion"
    /\ \E reply \in SqlReplies :
         /\ completions' = Append(completions, [kind |-> reply.kind])
         /\ LET c == SqlFromReply(reply)
            IN  IF ~c.ok
                THEN AskRaises("sql_completion", c.why) /\ UNCHANGED sql_query
                ELSE /\ sql_query' = c.sql
                     /\ pc' = "ask_execute"
                     /\ stages' = Append(stages, Stage("sql_completion", TRUE, ""))
                     /\ prompt' = NoPrompt
                     /\ drv' = <<>>
                     /\ UNCHANGED result
    /\ schema_context' = <<>>
    /\ UNCHANGED <<toolset, op, question, tables_result, idx, exec_result, cur, open_conns>>
    /\ UNCHANGED outside

\* exec_result.get(key, default)
Get(d, key, default) == IF key \in DOMAIN d THEN d[key] ELSE default

\* the test on exec_result, had it been left out
ExecFailedNever(exec) == FALSE

\* the test on exec_result after the call of _execute_sql
ExecFailed(exec) == exec.status = "error"

\* the dict returned when _execute_sql failed
AskExecErrorResult(q, sql, exec) ==
    [status |-> "error", question |-> q, sql_query |-> sql, error_message |-> exec.error_message]

\* the call of _execute_sql, and the second prompt goes out
AskExecute ==
    /\ pc = "ask_execute"
    /\ \E o \in ExecuteSqlOutcomes(pg_config, conn, sql_query, database.rows) :
         /\ conn' = o.conn
         /\ drv' = o.drv
         /\ cur' = o.cur
         /\ open_conns' = OpenAfter(open_conns, conn, o.conn, o.drv)
         /\ exec_result' = o.result
         /\ stages' = Append(stages, Stage("execute_sql", o.result.status = "success", ""))
         /\ IF ExecFailed(o.result)
            THEN /\ pc' = "returned"
                 /\ result' = AskExecErrorResult(question, sql_query, o.result)
                 /\ prompt' = NoPrompt
            ELSE /\ pc' = "ask_answer_completion"
                 /\ result' = NoResult
                 /\ prompt' = [kind |-> "answer", question |-> question, sql |-> sql_query,
                               data_preview |-> Prefix(Get(o.result, "rows", <<>>), PreviewRows),
                               row_count |-> Get(o.result, "row_count", 0)]
    /\ UNCHANGED <<pg_config, tools, genai_client, op, question, sql_query, completions,
                   tables_result, idx, schema_context>>
    /\ UNCHANGED outside

\* the dict returned when every stage succeeded, had it reported the rows of the preview
AskSuccessResultOfPreview(q, sql, answer_text, exec) ==
    [status |-> "success", question |-> q, sql_query |-> sql,
     answer |-> strip(answer_text),
     columns |-> Get(exec, "columns", <<>>),
     data |-> Prefix(Get(exec, "rows", <<>>), PreviewRows),
     row_count |-> Get(exec, "row_count", 0)]

\* the dict returned when every stage succeeded
AskSuccessResult(q, sql, answer_text, exec) ==
    [status |-> "success", question |-> q, sql_query |-> sql,
     answer |-> strip(answer_text),
     columns |-> Get(exec, "columns", <<>>),
     data |-> Get(exec, "rows", <<>>),
     row_count |-> Get(exec, "row_count", 0)]

\* the second completion answers
AskAnswerReply ==
    /\ pc = "ask_answer_completion"
    /\ \E reply \in AnswerReplies :
         /\ completions' = Append(completions, reply)
         /\ IF reply.kind # "text"
            THEN AskRaises("answer_completion", reply.kind)
            ELSE /\ pc' = "returned"
                 /\ result' = AskSuccessResult(question, sql_query, reply.text, exec_result)
                 /\ stages' = Append(stages, Stage("answer_completion", TRUE, ""))
                 /\ prompt' = NoPrompt
                 /\ drv' = <<>>
    /\ cur' = NoCursor
    /\ UNCHANGED <<toolset, op, question, sql_query,
                   tables_result, idx, schema_context, exec_result, open_conns>>
    /\ UNCHANGED outside

Next ==
    \/ ListSchemas
    \/ ListTables
    \/ GetTableInfo
    \/ ExecuteSql
    \/ Close
    \/ GetTools
    \/ Return
    \/ AskListTables
    \/ AskTableInfo
    \/ AskSqlPrompt
    \/ AskSqlReply
    \/ AskExecute
    \/ AskAnswerReply

Spec == Init /\ [][Next]_vars

(* ------------------- PostgresConfig and its from_env ------------------- *)

\* the fields of the toolset and the locals of its tools
toolset_vars == <<pg_config, conn, genai_client, pc, op, question, sql_query, result, drv, stages,
                  completions, tables_result, idx, schema_context, prompt, exec_result,
                  tools, cur, open_conns>>

\* a toolset that exists beside the program under study and is not called
ToolsetAside == Constructed([write_mode |-> "blocked", max_rows |-> 0])

\* os.getenv gives None for a variable that is not set
None == "None"

\* the defaults of the fields of PostgresConfig
DefaultWriteMode == "blocked"

DefaultSchema == "public"

DefaultMaxRows == 100

DefaultTimeout == 30

\* the dataclass PostgresConfig
PostgresConfig(connection_string, write_mode, default_schema, max_rows, timeout_seconds) ==
    [connection_string |-> connection_string, write_mode |-> write_mode,
     default_schema |-> default_schema, max_rows |-> max_rows,
     timeout_seconds |-> timeout_seconds]

\* the prefixes from_env is called with
Prefixes == {"POSTGRES", "PG"}

\* the variable f"{prefix}_{suffix}"
EnvName(prefix, suffix) == <<prefix, suffix>>

\* the values a variable of each suffix may hold; None stands for "not set"
EnvValues(suffix) ==
    CASE suffix = "URI" -> {None, "", "postgres://a"}
      [] suffix = "CONNECTION_STRING" -> {None, "postgres://b"}
      [] suffix = "WRITE_MODE" -> {None, "allowed", "ALLOWED", "Allowed", "blocked", "", "allow"}
      [] suffix = "MAX_ROWS" -> {None, "0", "ten"}

EnvSuffixes == {"URI", "CONNECTION_STRING", "WRITE_MODE", "MAX_ROWS"}

\* the variables of one prefix
PrefixEnvirons ==
    [URI : EnvValues("URI"), CONNECTION_STRING : EnvValues("CONNECTION_STRING"),
     WRITE_MODE : EnvValues("WRITE_MODE"), MAX_ROWS : EnvValues("MAX_ROWS")]

\* the environments of the process
Environs ==
    {[n \in Prefixes \X EnvSuffixes |-> e[n[1]][n[2]]] : e \in [Prefixes -> PrefixEnvirons]}

\* os.getenv(name, default)
getenv(env, name, default) ==
    IF name \in DOMAIN env /\ env[name] # None THEN env[name] ELSE default

\* Python's "a or b" on optional strings
Or(a, b) == IF a # None /\ a # "" THEN a ELSE b

\* str.lower, had it left the text as it was
lowerIdentity(str) == str

\* str.lower on the values of the variables
lower(str) ==
    CASE str = "ALLOWED" -> "allowed"
      [] str = "Allowed" -> "allowed"
      [] OTHER -> str

\* int(str): ok is FALSE when it raises ValueError
int(str) ==
    CASE str = "0" -> [ok |-> TRUE, value |-> 0]
      [] str = "30" -> [ok |-> TRUE, value |-> DefaultTimeout]
      [] str = "100" -> [ok |-> TRUE, value |-> DefaultMaxRows]
      [] OTHER -> [ok |-> FALSE, value |-> 0]

ValueError(message) == [outcome |-> "ValueError", message |-> message]

\* PostgresConfig.from_env(prefix) in the environment env
from_env(env, prefix) ==
    LET conn_str == Or(getenv(env, EnvName(prefix, "URI"), None),
                       getenv(env, EnvName(prefix, "CONNECTION_STRING"), None))
        write_mode_str == lower(getenv(env, EnvName(prefix, "WRITE_MODE"), "blocked"))
        write_mode == IF write_mode_str = "allowed" THEN "allowed" ELSE "blocked"
        max_rows == int(getenv(env, EnvName(prefix, "MAX_ROWS"), "100"))
        timeout_seconds == int(getenv(env, EnvName(prefix, "TIMEOUT"), "30"))
    IN  IF conn_str = None \/ conn_str = ""
        THEN ValueError(<<"Missing", prefix, "URI", "CONNECTION_STRING">>)
        ELSE IF ~max_rows.ok \/ ~timeout_seconds.ok
        THEN ValueError("invalid literal for int()")
        ELSE [outcome |-> "config",
              config |-> PostgresConfig(conn_str, write_mode,
                                        getenv(env, EnvName(prefix, "DEFAULT_SCHEMA"), "public"),
                                        max_rows.value, timeout_seconds.value)]

\* the write_mode argument was left out
NotGiven == "not given"

\* PostgresConfig(connection_string) or PostgresConfig(connection_string, write_mode=...)
Construct ==
    /\ built = NotBuilt
    /\ \E connection_string \in {"postgres://a"}, write_mode \in WriteMode \cup {NotGiven} :
         built' = [via |-> "PostgresConfig", write_mode |-> write_mode,
                   got |-> [outcome |-> "config",
                            config |-> PostgresConfig(connection_string,
                                         IF write_mode = NotGiven THEN DefaultWriteMode ELSE write_mode,
                                         DefaultSchema, DefaultMaxRows, DefaultTimeout)]]
    /\ UNCHANGED <<environ, pgmcp_call, pgmcp_result>>
    /\ UNCHANGED toolset_vars
    /\ UNCHANGED beside

\* PostgresConfig.from_env(prefix)
FromEnv ==
    /\ built = NotBuilt
    /\ \E prefix \in Prefixes :
         built' = [via |-> "from_env", prefix |-> prefix, got |-> from_env(environ, prefix)]
    /\ UNCHANGED <<environ, pgmcp_call, pgmcp_result>>
    /\ UNCHANGED toolset_vars
    /\ UNCHANGED beside

\* the caller drops the config, or handles the exception
Discard ==
    /\ built # NotBuilt
    /\ built' = NotBuilt
    /\ UNCHANGED <<environ, pgmcp_call, pgmcp_result>>
    /\ UNCHANGED toolset_vars
    /\ UNCHANGED beside

ConfigInit ==
    /\ ToolsetAside
    /\ environ \in Environs
    /\ built = NotBuilt
    /\ pgmcp_call = NoCall
    /\ pgmcp_result = NoResult
    /\ BesideIdle

ConfigNext ==
    \/ Construct
    \/ FromEnv
    \/ Discard

ConfigSpec == ConfigInit /\ [][ConfigNext]_vars

(* --------------------------- PGMCPClient.ask --------------------------- *)

\* the bodies of a response: text that is not JSON, or a JSON value; an object is given
\* by its members
Bodies ==
    {[type |-> "not_json"], [type |-> "null"], [type |-> "array"],
     [type |-> "string", has_error |-> FALSE], [type |-> "string", has_error |-> TRUE],
     [type |-> "object", members |-> [k \in {} |-> ""]],
     [type |-> "object", members |-> [result |-> "rows"]],
     [type |-> "object", members |-> [error |-> "rpc error"]],
     [type |-> "object", members |-> [error |-> "rpc error", result |-> "rows"]]}

StatusCodes == {200, 201, 301, 404, 500}

\* what the HTTP exchange does: client.post raises, or a response comes back
Exchanges ==
    {[kind |-> "ConnectError"], [kind |-> "ReadTimeout"]}
    \cup {[kind |-> "response", status_code |-> c, body |-> b] : c \in StatusCodes, b \in Bodies}

\* Response.is_success
is_success(status_code) == status_code \in 200..299

\* whether raise_for_status raises: never on 2xx, always on 4xx and 5xx, and on the
\* rest as the version of httpx has it
raise_for_status(status_code) ==
    IF is_success(status_code) THEN {FALSE}
    ELSE IF status_code \in 400..599 THEN {TRUE}
    ELSE {TRUE, FALSE}

AskReturned(value) == [outcome |-> "returned", value |-> value]

AskRaised(exception) == [outcome |-> "raised", exception |-> exception]

\* the dict of the except clause of ask
AskFailure(q, e) == [success |-> FALSE, error |-> e, question |-> q]

\* what ask does with the value of response.json()
AskFromJson(q, body) ==
    CASE body.type = "not_json" -> AskRaised("JSONDecodeError")
      [] body.type = "null" -> AskRaised("TypeError")
      [] body.type = "array" -> AskRaised("AttributeError")
      [] body.type = "string" ->
           IF body.has_error THEN AskRaised("TypeError") ELSE AskRaised("AttributeError")
      [] OTHER ->
           IF "error" \in DOMAIN body.members
           THEN AskReturned(AskFailure(q, body.members.error))
           ELSE AskReturned([success |-> TRUE,
                             result |-> IF "result" \in DOMAIN body.members
                                        THEN body.members.result ELSE "{}",
                             question |-> q])

\* everything ask(question, format) can do when the exchange is x
AskOutcomes(q, format, x) ==
    IF x.kind # "response"
    THEN {AskReturned(AskFailure(q, x.kind))}
    ELSE {IF raises THEN AskReturned(AskFailure(q, "HTTPStatusError"))
                    ELSE AskFromJson(q, x.body) :
            raises \in raise_for_status(x.status_code)}

\* ask(question, format)
PgmcpAsk ==
    /\ pgmcp_call = NoCall
    /\ \E q \in Questions \cup {""}, format \in {"json", "table"}, x \in Exchanges :
         /\ pgmcp_call' = [question |-> q, format |-> format, exchange |-> x]
         /\ pgmcp_result' \in AskOutcomes(q, format, x)
    /\ UNCHANGED <<environ, built>>
    /\ UNCHANGED toolset_vars
    /\ UNCHANGED beside

\* the caller takes what ask gave
PgmcpDone ==
    /\ pgmcp_call # NoCall
    /\ pgmcp_call' = NoCall
    /\ pgmcp_result' = NoResult
    /\ UNCHANGED <<environ, built>>
    /\ UNCHANGED toolset_vars
    /\ UNCHANGED beside

PgmcpInit ==
    /\ ToolsetAside
    /\ OutsideIdle

PgmcpNext ==
    \/ PgmcpAsk
    \/ PgmcpDone

PgmcpSpec == PgmcpInit /\ [][PgmcpNext]_vars

(* ----------------- the toolset on a database that changes --------------- *)

\* the databases the schema tools are followed on: an empty schema, a schema of one
\* table, and a schema of one table whose name a relation of another schema bears too
SchemaDatabases == {Database(0, 0), Database(1, 0), Database(1, 1)}

\* tables are created or dropped between two calls of the toolset
DbChange ==
    /\ pc = "idle"
    /\ \E d \in SchemaDatabases \ database.states :
         database' = DatabaseOf({d}, database.rows)
    /\ UNCHANGED toolset_vars
    /\ UNCHANGED <<environ, built, pgmcp_call, pgmcp_result, cleaning, callers>>

\* a toolset is constructed on a database whose schema is empty
SchemaInit ==
    /\ \E cfg \in Configs : Constructed(cfg)
    /\ environ = EmptyEnviron
    /\ built = NotBuilt
    /\ pgmcp_call = NoCall
    /\ pgmcp_result = NoResult
    /\ database = DatabaseOf({Database(0, 0)}, 0..MaxResultRows)
    /\ NothingElse

SchemaNext ==
    \/ DbChange
    \/ ListSchemas
    \/ ListTables
    \/ GetTableInfo
    \/ Close
    \/ Return
    \/ AskListTables
    \/ AskTableInfo
    \/ AskSqlPrompt
    \/ AskSqlReply
    \/ AskExecute
    \/ AskAnswerReply

SchemaSpec == SchemaInit /\ [][SchemaNext]_vars

(* ------------------ the fence clean-up, taken alone -------------------- *)

\* the clean-up of ask_data_insights runs on the text of the first completion
Clean ==
    /\ cleaning.out = NotCleaned
    /\ cleaning' = [text |-> cleaning.text, out |-> CleanSql(cleaning.text)]
    /\ UNCHANGED toolset_vars
    /\ UNCHANGED <<environ, built, pgmcp_call, pgmcp_result, database, callers>>

\* the first completion gave any text
CleanInit ==
    /\ ToolsetAside
    /\ environ = EmptyEnviron
    /\ built = NotBuilt
    /\ pgmcp_call = NoCall
    /\ pgmcp_result = NoResult
    /\ database = DatabaseOf(Databases, 0..MaxResultRows)
    /\ \E text \in Texts : cleaning = [text |-> text, out |-> NotCleaned]
    /\ callers = NoCallers

CleanNext == Clean

CleanSpec == CleanInit /\ [][CleanNext]_vars

(* ------------- ask_data_insights on results longer than the preview ---- *)

\* a toolset whose max_rows is above the length of the preview, on a database whose
\* result sets are empty or longer than the preview
PreviewInit ==
    /\ \E write_mode \in WriteMode :
         Constructed([write_mode |-> write_mode, max_rows |-> PreviewRows + 1])
    /\ environ = EmptyEnviron
    /\ built = NotBuilt
    /\ pgmcp_call = NoCall
    /\ pgmcp_result = NoResult
    /\ database = DatabaseOf(Databases, {0, PreviewRows + 1})
    /\ NothingElse

PreviewNext ==
    \/ Return
    \/ AskListTables
    \/ AskTableInfo
    \/ AskSqlPrompt
    \/ AskSqlReply
    \/ AskExecute
    \/ AskAnswerReply

PreviewSpec == PreviewInit /\ [][PreviewNext]_vars

(* ------------------------ unserialized callers -------------------------- *)

\* the fields and locals of the toolset other than _conn and the open connections
toolset_rest == <<pg_config, genai_client, pc, op, question, sql_query, result, drv, stages,
                  completions, tables_result, idx, schema_context, prompt, exec_result,
                  tools, cur>>

\* what is beside the toolset and its callers
not_callers == <<environ, built, pgmcp_call, pgmcp_result, database, cleaning>>

\* caller t is at `at` inside a call of `op`: "tool" for a tool that needs the database,
\* "close" for close()
At(t, at, o) == [callers EXCEPT !.at[t] = [at |-> at, op |-> o]]

\* caller t has returned, or its call has raised
Left(t) == [callers EXCEPT !.at[t] = Outside]

\* a caller calls a tool or close(), whatever the other caller is doing
CallerEnters ==
    /\ \E t \in Callers :
         /\ callers.at[t] = Outside
         /\ \E o \in {"tool", "close"} :
              callers' = [At(t, "test", o) EXCEPT !.overlapped =
                            callers.overlapped \/ \E u \in Callers \ {t} : callers.at[u] # Outside]
    /\ UNCHANGED <<conn, open_conns>>
    /\ UNCHANGED <<toolset_rest, not_callers>>

\* _get_connection reads self._conn and tests it
GetConnectionTests ==
    /\ \E t \in Callers :
         /\ callers.at[t] = [at |-> "test", op |-> "tool"]
         /\ callers' = At(t, IF MustConnect(conn) THEN "connect" ELSE "use", "tool")
    /\ UNCHANGED <<conn, open_conns>>
    /\ UNCHANGED <<toolset_rest, not_callers>>

\* psycopg.connect returns a new connection, or raises and the tool returns its error
GetConnectionConnects ==
    /\ \E t \in Callers :
         /\ callers.at[t] = [at |-> "connect", op |-> "tool"]
         /\ \/ /\ open_conns < MaxOpen
               /\ open_conns' = open_conns + 1
               /\ callers' = At(t, "assign", "tool")
            \/ /\ callers' = Left(t)
               /\ UNCHANGED open_conns
    /\ UNCHANGED conn
    /\ UNCHANGED <<toolset_rest, not_callers>>

\* self._conn = the new connection; the connection that _conn referred to stays as it is
GetConnectionAssigns ==
    /\ \E t \in Callers :
         /\ callers.at[t] = [at |-> "assign", op |-> "tool"]
         /\ callers' = At(t, "use", "tool")
    /\ conn' = "open"
    /\ UNCHANGED open_conns
    /\ UNCHANGED <<toolset_rest, not_callers>>

\* the tool runs its statements and returns
ToolReturns ==
    /\ \E t \in Callers :
         /\ callers.at[t] = [at |-> "use", op |-> "tool"]
         /\ callers' = Left(t)
    /\ UNCHANGED <<conn, open_conns>>
    /\ UNCHANGED <<toolset_rest, not_callers>>

\* close() tests self._conn and not self._conn.closed
CloseTests ==
    /\ \E t \in Callers :
         /\ callers.at[t] = [at |-> "test", op |-> "close"]
         /\ callers' = IF conn = "open" THEN At(t, "close", "close")
                       ELSE Left(t)
    /\ UNCHANGED <<conn, open_conns>>
    /\ UNCHANGED <<toolset_rest, not_callers>>

\* self._conn.close() closes the connection that _conn refers to at this moment; on a
\* _conn that another caller has set to None in between it raises
CloseCloses ==
    /\ \E t \in Callers :
         /\ callers.at[t] = [at |-> "close", op |-> "close"]
         /\ callers' = IF conn = "None" THEN Left(t)
                       ELSE At(t, "clear", "close")
    /\ conn' = IF conn = "open" THEN "closed" ELSE conn
    /\ open_conns' = IF conn = "open" THEN open_conns - 1 ELSE open_conns
    /\ UNCHANGED <<toolset_rest, not_callers>>

\* self._conn = None, whatever _conn refers to at this moment
CloseClears ==
    /\ \E t \in Callers :
         /\ callers.at[t] = [at |-> "clear", op |-> "close"]
         /\ callers' = Left(t)
    /\ conn' = "None"
    /\ UNCHANGED open_conns
    /\ UNCHANGED <<toolset_rest, not_callers>>

\* a toolset just constructed, shared by the callers
RaceInit ==
    /\ ToolsetAside
    /\ environ = EmptyEnviron
    /\ built = NotBuilt
    /\ pgmcp_call = NoCall
    /\ pgmcp_result = NoResult
    /\ database = DatabaseOf(Databases, 0..MaxResultRows)
    /\ cleaning = NoCleaning
    /\ callers = [at |-> [t \in Callers |-> Outside], overlapped |-> FALSE]

RaceNext ==
    \/ CallerEnters
    \/ GetConnectionTests
    \/ GetConnectionConnects
    \/ GetConnectionAssigns
    \/ ToolReturns
    \/ CloseTests
    \/ CloseCloses
    \/ CloseClears

RaceSpec == RaceInit /\ [][RaceNext]_vars

(* ------------------------------ properties ----------------------------- *)

SevenKeywords == {"INSERT", "UPDATE", "DELETE", "DROP", "CREATE", "ALTER", "TRUNCATE"}

\* the trimmed, upper-cased text starts with one of the seven write keywords
StartsWithWriteKeyword(sql) ==
    LET t == upper(strip(sql)) IN t # <<>> /\ t[1] \in SevenKeywords

\* the text is a SELECT statement
IsSelect(sql) ==
    LET t == upper(strip(sql)) IN t # <<>> /\ t[1] = "SELECT"

\* the last step gave the statement to the driver's execute
Submitted(stmt) == \E k \in DOMAIN drv : drv[k].kind = "sql" /\ drv[k].stmt = stmt

\* the last step gave some statement of execute_sql to the driver's execute
AnySqlSubmitted == \E k \in DOMAIN drv : drv[k].kind = "sql"

\* the last step tried to open a connection and failed
ConnectFailed == \E k \in DOMAIN drv : drv[k].kind = "connect" /\ ~drv[k].ok

Returned(name) == pc = "returned" /\ op = name

StageRan(name) == \E k \in DOMAIN stages : stages[k].stage = name

\* the first completion gave a statement
SqlSynthesized == \E k \in DOMAIN stages : stages[k].stage = "sql_completion" /\ stages[k].ok

LastStage == stages[Len(stages)]

\* the client of the completion capability could not be made, or its first call
\* raised or gave a response without text
FirstCompletionFailed ==
    \/ stages # <<>> /\ LastStage = Stage("sql_completion", FALSE, "client_error")
    \/ completions # <<>> /\ completions[1].kind \in {"error", "no_text"}

\* C1: execute_sql under write mode BLOCKED, given a text whose trimmed, upper-cased
\* form starts with one of the seven write keywords, returns status=error with the
\* writes-are-blocked message, makes no call to the driver (no connect, no execute)
\* and leaves the toolset's connection as it was, whatever that was.
C1_BlockedWriteNeverReachesDriver ==
    [][(pc = "idle" /\ op' = "execute_sql" /\ pg_config.write_mode = "blocked"
          /\ StartsWithWriteKeyword(sql_query'))
       => (/\ result'.status = "error"
           /\ result'.error_message = WriteBlockedMessage
           /\ drv' = <<>>
           /\ conn' = conn)]_vars

\* a lower-case write after a newline was rejected on a toolset whose connection is closed
C1_Witness ==
    /\ Returned("execute_sql")
    /\ pg_config.write_mode = "blocked"
    /\ sql_query = <<"\n", "drop", "x">>
    /\ conn = "closed"
    /\ result.status = "error"
    /\ result.error_message = WriteBlockedMessage

\* C2: execute_sql never rejects a SELECT statement by the write guard, under either
\* write mode: it asks for the connection and hands the statement to the driver's
\* execute; only a failed attempt to open the connection keeps it from the driver.
C2_SelectReachesDatabase ==
    (Returned("execute_sql") /\ IsSelect(sql_query))
    => /\ result.status = "error" => result.error_message # WriteBlockedMessage
       /\ Submitted(sql_query) \/ ConnectFailed

\* under BLOCKED, a SELECT that names a write keyword further on was executed
C2_Witness ==
    /\ Returned("execute_sql")
    /\ pg_config.write_mode = "blocked"
    /\ sql_query = <<"SELECT", " ", "DELETE">>
    /\ result.status = "success"
    /\ Submitted(sql_query)

\* C3: the rows of a successful execute_sql result are at most max_rows, for every
\* max_rows >= 0 and every size of the result set.
C3_RowsWithinMaxRows ==
    (Returned("execute_sql") /\ result.status = "success" /\ "rows" \in DOMAIN result)
    => Len(result.rows) <= pg_config.max_rows

\* C4: in ask_data_insights under write mode BLOCKED, a synthesized statement that
\* starts (trimmed, upper-cased) with a write keyword is never given to the driver, no
\* answer completion is requested, and the request returns status=error with the
\* question and that statement as sql_query.
C4_SynthesizedWriteBlocked ==
    (op = "ask_data_insights" /\ pg_config.write_mode = "blocked" /\ SqlSynthesized
       /\ StartsWithWriteKeyword(sql_query))
    => /\ ~AnySqlSubmitted
       /\ pc # "ask_answer_completion"
       /\ ~StageRan("answer_completion")
       /\ pc = "returned" =>
            result = [status |-> "error", question |-> question, sql_query |-> sql_query,
                      error_message |-> WriteBlockedMessage]

\* a completion's lower-case write was rejected, and reported with the statement
C4_Witness ==
    /\ Returned("ask_data_insights")
    /\ pg_config.write_mode = "blocked"
    /\ result.status = "error"
    /\ "sql_query" \in DOMAIN result
    /\ result.sql_query = <<"drop", " ", "x">>
    /\ result.error_message = WriteBlockedMessage

\* C5: every call of the five tools ends by returning a dict whose status is "success"
\* or "error", with an error_message whenever it is "error"; no call ends with an
\* exception, whatever the connection, the statements and the completions do.
C5_StructuredResult ==
    /\ pc # "raised"
    /\ pc = "returned" =>
         /\ op \in {"list_schemas", "list_tables", "get_table_info", "execute_sql", "ask_data_insights"}
         /\ result.status \in {"success", "error"}
         /\ result.status = "error" => "error_message" \in DOMAIN result

\* ask_data_insights returned an error after its second completion gave no text
C5_Witness ==
    /\ Returned("ask_data_insights")
    /\ result.status = "error"
    /\ LastStage = Stage("answer_completion", FALSE, "no_text")

\* C6: a result with status=error has no payload field: besides status it holds only
\* error_message, the question and the SQL text (sql_query, query).
C6_ErrorCarriesNoPayload ==
    (pc = "returned" /\ result.status = "error")
    => DOMAIN result \subseteq {"status", "error_message", "question", "sql_query", "query"}

\* ask_data_insights failed while it held rows of an executed statement
C6_Witness ==
    /\ Returned("ask_data_insights")
    /\ result.status = "error"
    /\ "rows" \in DOMAIN exec_result
    /\ exec_result.rows # <<>>

C8_ErrorCarriesQuestion ==
    (Returned("ask_data_insights") /\ result.status = "error")
    => ("question" \in DOMAIN result /\ result.question = question)

\* C9: an error result of ask_data_insights that comes after the statement was
\* synthesized carries it as sql_query; and no result with an answer or data is an error.
C9_FailureAfterSynthesisCarriesSql ==
    /\ (Returned("ask_data_insights") /\ result.status = "error" /\ SqlSynthesized)
         => ("sql_query" \in DOMAIN result /\ result.sql_query = sql_query)
    /\ (Returned("ask_data_insights") /\ ("answer" \in DOMAIN result \/ "data" \in DOMAIN result))
         => result.status = "success"

\* C10: when the first completion fails (the client cannot be made, the call raises, or
\* the response has no text), ask_data_insights returns status=error with the question
\* and without sql_query, and no statement is given to execute_sql or to the driver.
C10_SynthesisFailure ==
    (op = "ask_data_insights" /\ FirstCompletionFailed)
    => /\ pc = "returned"
       /\ result.status = "error"
       /\ "question" \in DOMAIN result /\ result.question = question
       /\ "sql_query" \notin DOMAIN result
       /\ ~StageRan("execute_sql")
       /\ ~AnySqlSubmitted

\* the first completion's response had no text
C10_Witness ==
    /\ Returned("ask_data_insights")
    /\ completions = <<[kind |-> "no_text"]>>
    /\ result.status = "error"
    /\ "sql_query" \notin DOMAIN result

\* some call of the last step to the driver failed
DriverFailed == \E k \in DOMAIN drv : ~drv[k].ok

\* the text of the error of the last step's failed call
DriverErrorText ==
    LET k == CHOOSE j \in DOMAIN drv : ~drv[j].ok
    IN  CASE drv[k].kind = "connect" -> "connect_error"
          [] drv[k].kind = "fetch" -> "fetch_error"
          [] OTHER -> "sql_error"

\* a Python list
IsList(x) == DOMAIN x = 1..Len(x)

\* C11: under write mode ALLOWED, execute_sql rejects no statement by policy: every
\* statement, a write included, is given to the driver's execute unless the connection
\* could not be opened, and an error result comes from a failed call to the driver.
C11_AllowedNeverRejects ==
    (Returned("execute_sql") /\ pg_config.write_mode = "allowed")
    => /\ Submitted(sql_query) \/ ConnectFailed
       /\ result.status = "error" =>
            (result.error_message # WriteBlockedMessage /\ DriverFailed)

\* under ALLOWED, a DROP was executed
C11_Witness ==
    /\ Returned("execute_sql")
    /\ pg_config.write_mode = "allowed"
    /\ sql_query = <<"DROP", " ", "x">>
    /\ result.status = "success"
    /\ Submitted(sql_query)

\* C12: when the connection or the driver fails in execute_sql, the result is
\* status=error with the statement, unchanged, as query and the driver's error text as
\* error_message; and every error result other than the write guard's is of that kind.
C12_DriverFailureReported ==
    /\ (Returned("execute_sql") /\ DriverFailed)
         => result = [status |-> "error", query |-> sql_query, error_message |-> DriverErrorText]
    /\ (Returned("execute_sql") /\ result.status = "error"
           /\ result.error_message # WriteBlockedMessage)
         => DriverFailed

\* the fetch of the rows failed on a statement that has spaces around it
C12_Witness ==
    /\ Returned("execute_sql")
    /\ sql_query = <<" ", "SELECT", "\n">>
    /\ result = [status |-> "error", query |-> <<" ", "SELECT", "\n">>, error_message |-> "fetch_error"]

\* C13: a successful execute_sql result has columns if and only if the statement
\* produced a result set: without one it has the rows-affected message and no columns,
\* rows or row_count; with one it has columns, rows and row_count, and row_count is the
\* number of rows.
C13_ColumnsIffResultSet ==
    (Returned("execute_sql") /\ result.status = "success")
    => /\ ("columns" \in DOMAIN result) <=> ProducedResultSet(cur)
       /\ ~ProducedResultSet(cur) =>
            /\ "message" \in DOMAIN result
            /\ DOMAIN result \cap {"columns", "rows", "row_count"} = {}
       /\ ProducedResultSet(cur) =>
            /\ {"columns", "rows", "row_count"} \subseteq DOMAIN result
            /\ result.row_count = Len(result.rows)

\* the connect calls that the step into this state made
ConnectCalls(d) == {k \in DOMAIN d : d[k].kind = "connect"}

\* C14: a toolset is constructed without a connection; a step opens a connection only
\* when the toolset holds none or holds a closed one, opens one at most, and opens it in
\* auto-commit mode; the toolset never has more than one open connection, and has one
\* exactly when _conn refers to an open connection.
C14_LazySingleConnection ==
    /\ conn = "None" /\ open_conns = 0
    /\ [](open_conns <= 1 /\ (open_conns = 1 <=> conn = "open"))
    /\ [][ConnectCalls(drv') # {}
           => /\ conn \in {"None", "closed"}
              /\ Cardinality(ConnectCalls(drv')) = 1
              /\ \A k \in ConnectCalls(drv') : drv'[k].stmt.autocommit]_vars

\* a statement ran on the connection that an earlier call had opened
C14_Witness ==
    /\ Returned("execute_sql")
    /\ result.status = "success"
    /\ ConnectCalls(drv) = {}
    /\ Submitted(sql_query)
    /\ open_conns = 1

\* C15: close() on a toolset with an open connection closes it once and leaves _conn
\* None; close() on a toolset with no connection or a closed one changes nothing; and
\* no other operation calls close on the connection or sets _conn to None.
C15_CloseOnlyByClose ==
    [][LET closing == pc = "idle" /\ op' = "close"
       IN  /\ (closing /\ conn = "open")
                => (conn' = "None" /\ Closed(drv') = 1 /\ open_conns' = open_conns - 1)
           /\ (closing /\ conn # "open")
                => (conn' = conn /\ Closed(drv') = 0 /\ open_conns' = open_conns)
           /\ ~closing => (Closed(drv') = 0 /\ (conn' = "None" => conn = "None"))]_vars

\* close() was called on an open connection
C15_Witness ==
    /\ pc = "returned_none"
    /\ op = "close"
    /\ conn = "None"
    /\ Closed(drv) = 1
    /\ open_conns = 0

\* C16: list_tables and get_table_info fail only when a call to the driver fails: an
\* empty schema and a table without rows or keys give status=success with empty lists,
\* and every successful get_table_info result has columns, primary_key, foreign_keys
\* and sample_rows, each a list.
C16_EmptyListsAreSuccess ==
    /\ (Returned("list_tables") \/ Returned("get_table_info"))
         => (result.status = "error" <=> DriverFailed)
    /\ (Returned("list_tables") /\ result.status = "success")
         => ("tables" \in DOMAIN result /\ IsList(result.tables))
    /\ (Returned("get_table_info") /\ result.status = "success")
         => \A key \in {"columns", "primary_key", "foreign_keys", "sample_rows"} :
              key \in DOMAIN result /\ IsList(result[key])

\* get_table_info described a table that has neither rows nor keys
C16_Witness ==
    /\ Returned("get_table_info")
    /\ result.status = "success"
    /\ result.primary_key = <<>>
    /\ result.foreign_keys = <<>>
    /\ result.sample_rows = <<>>

\* C17: no step changes the config the toolset was constructed with, and what
\* execute_sql applies in a call is that config's write mode and max_rows.
C17_ConfigIsFrame ==
    [][/\ pg_config' = pg_config
       /\ (pc = "idle" /\ op' = "execute_sql")
            => /\ (result'.status = "error" /\ result'.error_message = WriteBlockedMessage)
                    <=> (IsWrite(sql_query') /\ pg_config.write_mode = "blocked")
               /\ "rows" \in DOMAIN result'
                    => result'.rows = fetchmany(cur'.rows, pg_config.max_rows)]_vars

\* execute_sql cut a result set of two rows to the one row of max_rows
C17_Witness ==
    /\ Returned("execute_sql")
    /\ pg_config.max_rows = 1
    /\ result.status = "success"
    /\ "rows" \in DOMAIN result
    /\ Len(cur.rows) = 2
    /\ Len(result.rows) = 1

\* C19: the toolset holds the five tools in every state, and get_tools returns exactly
\* them, whatever the connection is and whatever readonly_context it is given.
C19_FiveToolsAlways ==
    /\ tools = FiveTools
    /\ pc = "returned_tools" =>
         /\ Len(result.tools) = 5
         /\ {result.tools[k] : k \in 1..5} =
              {"list_schemas", "list_tables", "get_table_info", "execute_sql", "ask_data_insights"}

\* get_tools was called on a toolset whose connection a failure had closed
C19_Witness ==
    /\ pc = "returned_tools"
    /\ conn = "closed"
    /\ Len(result.tools) = 5

\* the spellings of "allowed" among the values of WRITE_MODE
AllowedSpellings == {"allowed", "ALLOWED", "Allowed"}

\* C18: a PostgresConfig built without write_mode is BLOCKED; from_env gives ALLOWED
\* exactly when {prefix}_WRITE_MODE is set to "allowed" in some letter case, and raises
\* ValueError when neither {prefix}_URI nor {prefix}_CONNECTION_STRING is set.
C18_BlockedUnlessAllowed ==
    /\ (built.via = "PostgresConfig" /\ built.write_mode = NotGiven)
         => built.got.config.write_mode = "blocked"
    /\ built.via = "from_env" =>
         /\ (environ[<<built.prefix, "URI">>] = None
               /\ environ[<<built.prefix, "CONNECTION_STRING">>] = None)
              => built.got.outcome = "ValueError"
         /\ built.got.outcome = "config"
              => /\ built.got.config.write_mode \in WriteMode
                 /\ built.got.config.write_mode = "allowed"
                      <=> environ[<<built.prefix, "WRITE_MODE">>] \in AllowedSpellings

\* from_env("PG") read PG_WRITE_MODE=ALLOWED while POSTGRES_WRITE_MODE was not set
C18_Witness ==
    /\ built.via = "from_env"
    /\ built.prefix = "PG"
    /\ environ[<<"PG", "WRITE_MODE">>] = "ALLOWED"
    /\ environ[<<"POSTGRES", "WRITE_MODE">>] = None
    /\ built.got.outcome = "config"
    /\ built.got.config.write_mode = "allowed"

\* C20: whatever the HTTP exchange does, PGMCPClient.ask returns a dict with a boolean
\* success and the question it was given, with error when success is False and result
\* when it is True; it never raises.
C20_AskAlwaysReturns ==
    pgmcp_call # NoCall
    => /\ pgmcp_result.outcome = "returned"
       /\ LET d == pgmcp_result.value
          IN  /\ {"success", "question"} \subseteq DOMAIN d
              /\ d.success \in BOOLEAN
              /\ d.question = pgmcp_call.question
              /\ ~d.success => "error" \in DOMAIN d
              /\ d.success => "result" \in DOMAIN d

\* the dict of a statement that the write guard turned down
BlockedResult == [status |-> "error", error_message |-> WriteBlockedMessage]

StageRank(name) ==
    CASE name = "list_tables" -> 1
      [] name = "get_table_info" -> 2
      [] name = "sql_completion" -> 3
      [] name = "execute_sql" -> 4
      [] name = "answer_completion" -> 5

\* the stages of the given name among the first n stages run
StagesBefore(n, name) == {k \in 1..(n - 1) : stages[k].stage = name}

\* C22: the stages of ask_data_insights run in one order: list_tables first, then
\* get_table_info for each table the loop looks at, then the SQL completion, then
\* execute_sql, then the answer completion; the SQL completion is asked for only after
\* the loop is through, execute_sql is called only right after the SQL completion gave a
\* text, and the answer completion is asked for only right after execute_sql succeeded.
C22_StagesInOrder ==
    op = "ask_data_insights" =>
      /\ stages # <<>>
      /\ stages[1].stage = "list_tables"
      /\ \A k \in 2..Len(stages) :
           /\ StageRank(stages[k - 1].stage) <= StageRank(stages[k].stage)
           /\ StageRank(stages[k - 1].stage) = StageRank(stages[k].stage)
                => stages[k].stage = "get_table_info"
           /\ stages[k].stage = "get_table_info" => stages[1].ok
           /\ stages[k].stage = "sql_completion" =>
                /\ stages[1].ok
                /\ Cardinality(StagesBefore(k, "get_table_info"))
                     = Len(Prefix(tables_result.tables, TableLimit))
           /\ stages[k].stage = "execute_sql" => stages[k - 1] = Stage("sql_completion", TRUE, "")
           /\ stages[k].stage = "answer_completion" => stages[k - 1] = Stage("execute_sql", TRUE, "")

\* a request ran its five stages over a schema of one table
C22_Witness ==
    /\ Returned("ask_data_insights")
    /\ result.status = "success"
    /\ stages = <<Stage("list_tables", TRUE, ""), Stage("get_table_info", TRUE, ""),
                  Stage("sql_completion", TRUE, ""), Stage("execute_sql", TRUE, ""),
                  Stage("answer_completion", TRUE, "")>>

\* the calls of the kind among the driver calls of the last step
CallsOf(kind) == {k \in DOMAIN drv : drv[k].kind = kind}

\* the stages of the name among the stages run so far
StagesNamed(name) == {k \in DOMAIN stages : stages[k].stage = name}

\* the calls of _get_table_info made so far in this request
Rounds == Cardinality(StagesNamed("get_table_info"))

\* the table names given to _get_table_info so far: the loop takes the entries of the
\* listing one after the other
Fetched == [k \in 1..Rounds |-> tables_result.tables[k].name]

TheDatabase == CHOOSE d \in database.states : TRUE

\* C24: for a schema of n tables ask_data_insights fetches the table info of exactly
\* min(n, 10) tables, the first of the listing in the order of their names, and the
\* schema block that goes to the completion capability has at most ten lines, each for
\* another table of the listing.
C24_FirstTenTables ==
    (op = "ask_data_insights" /\ prompt.kind = "sql")
    => LET n    == TheDatabase.tables
           most == IF n < TableLimit THEN n ELSE TableLimit
       IN  /\ Len(Fetched) = most
           /\ \A k \in DOMAIN Fetched : Fetched[k] = k
           /\ Len(prompt.schema_str) <= TableLimit
           /\ \A i, j \in DOMAIN prompt.schema_str :
                prompt.schema_str[i].table = prompt.schema_str[j].table => i = j
           /\ \A i \in DOMAIN prompt.schema_str : prompt.schema_str[i].table \in 1..n

\* C25: for every text of the first completion, the statement that goes to execute_sql
\* is the text with a fence at its start and a fence at its end removed and the blanks
\* around it trimmed: a text without fences goes unchanged apart from the trimming, and
\* a fenced text, on one line or on several, gives a statement that neither starts nor
\* ends with a fence.
C25_FencesRemoved ==
    cleaning.out # NotCleaned
    => LET s0 == strip(cleaning.text)
       IN  /\ cleaning.out.ok
           /\ ~startswith(cleaning.out.sql, Fence)
           /\ ~endswith(cleaning.out.sql, Fence)
           /\ (~startswith(s0, Fence) /\ ~endswith(s0, Fence)) => cleaning.out.sql = s0

\* the schema tools
SchemaTools == {"list_schemas", "list_tables", "get_table_info"}

\* the catalog statements of the last step that ran without failing
CatalogDone == {k \in DOMAIN drv : drv[k].kind = "catalog" /\ drv[k].ok}

\* C26: when the connection cannot be opened or any catalog statement of list_schemas,
\* list_tables or get_table_info fails, the third or fourth statement of get_table_info
\* after the earlier ones ran included, the tool returns status=error with the driver's
\* error text and nothing else: no field filled from the statements that had run.
C26_CatalogFailureDropsPartial ==
    (pc = "returned" /\ op \in SchemaTools)
    => /\ DriverFailed => result = [status |-> "error", error_message |-> DriverErrorText]
       /\ result.status = "error" => DriverFailed

\* the third statement of get_table_info failed after two had run
C26_Witness ==
    /\ Returned("get_table_info")
    /\ Cardinality(CatalogDone) = 2
    /\ \E k \in DOMAIN drv : drv[k] = DriverCall("catalog", "foreign_keys", FALSE)
    /\ DOMAIN result = {"status", "error_message"}
    /\ result.error_message = "sql_error"

\* the last step ran the catalog statement on the database
Queried(stmt) == \E k \in DOMAIN drv : drv[k] = DriverCall("catalog", stmt, TRUE)

\* C27: the toolset keeps no schema information between calls: every list_schemas,
\* list_tables and get_table_info call and every ask_data_insights request goes to the
\* database again, and after the tables of the database changed, the listing that a
\* later call works with is the one of the database as it is at that call.
C27_NoSchemaCache ==
    /\ (pc = "returned" /\ op \in SchemaTools) =>
         /\ drv # <<>>
         /\ result.status = "success" =>
              Queried(IF op = "get_table_info" THEN "sample_rows" ELSE op)
    /\ (Returned("list_tables") /\ result.status = "success")
         => result.tables = Listing(TheDatabase)
    /\ (op = "ask_data_insights" /\ tables_result.status = "success")
         => tables_result.tables = Listing(TheDatabase)
    /\ (pc = "ask_info" /\ idx = 1) => Queried("list_tables")
    /\ (pc = "ask_info" /\ idx > 1 /\ stages[Len(stages)].ok) => Queried("sample_rows")

\* after tables were created, list_tables gave the new listing on a connection that an
\* earlier call had opened
C27_Witness ==
    /\ Returned("list_tables")
    /\ database.states = {Database(1, 0)}
    /\ result.status = "success"
    /\ Len(result.tables) = 1
    /\ ConnectCalls(drv) = {}
    /\ Queried("list_tables")

\* C28: a success result of ask_data_insights reports the request as it ran: question is
\* the question asked, sql_query the statement that was given to execute_sql, columns,
\* data and row_count what execute_sql returned, or empty lists and 0 when it returned
\* none, and answer the trimmed text of the second completion; the preview in the answer
\* prompt holds the first five of the returned rows, or all of them when they are fewer.
C28_SuccessReportsRequest ==
    /\ (op = "ask_data_insights" /\ pc = "ask_answer_completion") =>
         /\ Submitted(sql_query)
         /\ exec_result.query = sql_query
         /\ prompt.sql = sql_query
         /\ Len(prompt.data_preview) <= PreviewRows
         /\ "rows" \in DOMAIN exec_result =>
              /\ Len(prompt.data_preview) = IF Len(exec_result.rows) < PreviewRows
                                            THEN Len(exec_result.rows) ELSE PreviewRows
              /\ \A k \in DOMAIN prompt.data_preview : prompt.data_preview[k] = exec_result.rows[k]
         /\ "rows" \notin DOMAIN exec_result => prompt.data_preview = <<>>
    /\ (Returned("ask_data_insights") /\ result.status = "success") =>
         /\ result.question = question
         /\ result.sql_query = sql_query
         /\ result.sql_query = exec_result.query
         /\ Len(completions) = 2
         /\ completions[2].kind = "text"
         /\ result.answer = strip(completions[2].text)
         /\ IF "rows" \in DOMAIN exec_result
            THEN /\ result.columns = exec_result.columns
                 /\ result.data = exec_result.rows
                 /\ result.row_count = exec_result.row_count
            ELSE /\ result.columns = <<>>
                 /\ result.data = <<>>
                 /\ result.row_count = 0

\* a request whose statement returned six rows, one more than the preview shows
C28_Witness ==
    /\ Returned("ask_data_insights")
    /\ result.status = "success"
    /\ Len(result.data) = PreviewRows + 1
    /\ result.row_count = PreviewRows + 1
    /\ completions[2].text = <<" ", "x", "\n">>
    /\ result.answer = <<"x">>

\* the connections that are open and that _conn does not refer to, none of the callers
\* being about to store one
Leaked ==
    IF \E t \in Callers : callers.at[t].at = "assign" THEN 0
    ELSE open_conns - (IF conn = "open" THEN 1 ELSE 0)

\* C29: the toolset's connection is safe for serialized callers only. As long as no two
\* calls were under way at the same time, at most one connection is open and it is the
\* one _conn refers to, or the one a caller is about to store; a second open connection,
\* or an open connection that _conn does not refer to, comes about only by two calls
\* that overlapped.
C29_LeakOnlyWhenOverlapped ==
    ~callers.overlapped =>
      /\ open_conns <= 1
      /\ Leaked = 0
      /\ open_conns = IF conn = "open" \/ \E t \in Callers : callers.at[t].at = "assign"
                      THEN 1 ELSE 0

\* two callers found no connection, each opened one, and the second assignment replaced
\* the first: two connections are open and _conn refers to one of them
C29_Witness ==
    /\ callers.overlapped
    /\ \A t \in Callers : callers.at[t] = [at |-> "use", op |-> "tool"]
    /\ conn = "open"
    /\ open_conns = 2
    /\ Leaked = 1

\* the tools that need the database
DbTools == {"list_schemas", "list_tables", "get_table_info", "execute_sql", "ask_data_insights"}

\* what _get_connection does, leaving aside the dead reference it keeps when it fails
Connecting(c) ==
    {[ok |-> g.ok, drv |-> g.drv, conn |-> IF g.ok THEN g.conn ELSE "none"] : g \in GetConnection(c)}

\* what the first step of the tool gave is what it can give on a toolset just constructed
\* with the same config; execute_sql, whose every other line looks at the statement and
\* the config only, is compared by the way it takes its connection
AsOnNewToolset ==
    CASE op' = "list_schemas" ->
           \E o \in ListSchemasOutcomes("None") : o.result = result' /\ o.drv = drv'
      [] op' = "list_tables" ->
           \E s \in Schemas : \E o \in ListTablesOutcomes("None", s, database.states) :
             o.result = result' /\ o.drv = drv'
      [] op' = "get_table_info" ->
           \E t \in TableNames, s \in Schemas : \E o \in GetTableInfoOutcomes("None", t, s) :
             o.result = result' /\ o.drv = drv'
      [] op' = "execute_sql" -> Connecting(conn) = Connecting("None")
      [] op' = "ask_data_insights" ->
           \E s \in Schemas : \E o \in ListTablesOutcomes("None", s, database.states) :
             o.result = tables_result' /\ o.drv = drv'

\* C30: close() does not disable the toolset. A tool that needs the database and is
\* called while _conn is None (as after close()) or refers to a closed connection first
\* opens a new connection, and what it does is what it can do on a toolset just
\* constructed; a write that is turned down under BLOCKED is turned down as ever,
\* without a connection being opened.
C30_UsableAfterClose ==
    [][(pc = "idle" /\ conn # "open" /\ op' \in DbTools)
       => IF op' = "execute_sql" /\ pg_config.write_mode = "blocked"
               /\ StartsWithWriteKeyword(sql_query')
          THEN /\ result' = BlockedResult
               /\ drv' = <<>>
               /\ conn' = conn
               /\ open_conns' = open_conns
          ELSE /\ drv' # <<>>
               /\ drv'[1].kind = "connect"
               /\ drv'[1].ok => conn' \in {"open", "closed"}
               /\ ~drv'[1].ok => conn' = conn
               /\ AsOnNewToolset]_vars

\* a write was turned down on a toolset that had held a connection and was closed
C30_Witness ==
    /\ Returned("execute_sql")
    /\ result = BlockedResult
    /\ genai_client
    /\ conn = "None"
    /\ open_conns = 0
    /\ drv = <<>>

====
